---- MODULE Spec2Model ----
(***************************************************************************)
(* The patch-preserving evaluation harness of controller/cves/             *)
(* cve_2025_32444.py: generic_setup, checkout_branch and                   *)
(* evaluate_cve_2025_32444, run against a model of the git workspace       *)
(* /workspace/vllm and of the upstream remote.                             *)
(*                                                                         *)
(* A file's content is one of "absent", "base" (the working branch's       *)
(* committed version), "ref" (the reference branch's version), "edit" (an  *)
(* uncommitted edit), "conflict" (a file left with merge-conflict markers).*)
(***************************************************************************)
EXTENDS Integers, Sequences, FiniteSets, TLC

\* ---------------------------------------------------------------- bounds
MaxCalls == 2      \* tool invocations made by the caller in one behaviour
MaxStash == 1      \* stash entries already on the stack at the first call

\* ------------------------------------------------------- program constants
test_file == "tests/distributed/test_cve_2025_32444.py"
test_branch == "CVE-2025-32444-tests"
timeout == 60
other_file == "vllm/source.py"       \* any workspace file besides test_file
work_branch == "main"                \* generic_setup's default branch argument
init_branch == "master"              \* the branch `git init` leaves HEAD on

Files == {test_file, other_file}
Content == {"absent", "base", "ref", "edit", "conflict"}
EmptyTree == [f \in Files |-> "absent"]

\* ------------------------------------------------------------ git: helpers
\* The committed tree HEAD points at (empty when there is no metadata or the
\* branch is unborn).
HeadTree(w) ==
    IF w.git /\ w.head \in DOMAIN w.local THEN w.local[w.head].tree ELSE EmptyTree

\* Files differing between HEAD and the target tree must be unmodified in the
\* working tree (a file merely deleted from the working tree does not block
\* the switch); an unresolved merge in the index blocks every switch.
CanSwitch(w, target) ==
    /\ ~w.unmerged
    /\ \A f \in Files :
          HeadTree(w)[f] # target[f] =>
             \/ w.wt[f] = HeadTree(w)[f]
             \/ (HeadTree(w)[f] # "absent" /\ w.wt[f] = "absent")

\* Working tree after a switch: files that differ between the two trees take
\* the target's version, every other file keeps its (possibly modified) content.
SwitchWt(w, target) ==
    [f \in Files |-> IF HeadTree(w)[f] # target[f] THEN target[f] ELSE w.wt[f]]

Ok(w) == [rc |-> 0, ws |-> w]
Fail(w, code) == [rc |-> code, ws |-> w]

\* Move HEAD to local branch b (which exists) and record the move in the reflog.
SwitchTo(w, b) ==
    IF CanSwitch(w, w.local[b].tree)
    THEN Ok([w EXCEPT !.wt = SwitchWt(w, w.local[b].tree), !.prev = w.head, !.head = b])
    ELSE Fail(w, 1)

\* Extend a function by one key.
Put(fn, k, v) == [x \in DOMAIN fn \cup {k} |-> IF x = k THEN v ELSE fn[x]]

\* ----------------------------------------------------------- git: commands
\* git checkout <branch>: a local branch, else a branch created from the one
\* remote-tracking ref of that name.
GitCheckout(w, branch) ==
    IF ~w.git THEN Fail(w, 128)
    ELSE IF branch \in DOMAIN w.local THEN SwitchTo(w, branch)
    ELSE IF branch \in DOMAIN w.refs
         THEN IF CanSwitch(w, w.refs[branch].tree)
              THEN SwitchTo([w EXCEPT !.local = Put(w.local, branch, w.refs[branch])], branch)
              ELSE Fail(w, 1)
    ELSE Fail(w, 1)

\* git checkout -b <branch> origin/<branch>
GitCheckoutNew(w, branch) ==
    IF ~w.git THEN Fail(w, 128)
    ELSE IF branch \in DOMAIN w.local THEN Fail(w, 128)
    ELSE IF branch \notin DOMAIN w.refs THEN Fail(w, 128)
    ELSE IF CanSwitch(w, w.refs[branch].tree)
         THEN SwitchTo([w EXCEPT !.local = Put(w.local, branch, w.refs[branch])], branch)
         ELSE Fail(w, 1)

\* git checkout - : the branch HEAD was on before the last switch.
GitCheckoutPrevious(w) ==
    IF ~w.git THEN Fail(w, 128)
    ELSE IF w.prev \notin DOMAIN w.local THEN Fail(w, 1)
    ELSE SwitchTo(w, w.prev)

\* git fetch origin <branch>; up is the upstream repository, net says whether
\* it can be reached.
GitFetchBranch(w, branch, up, net) ==
    IF ~w.git \/ ~w.origin \/ ~net \/ branch \notin DOMAIN up THEN Fail(w, 128)
    ELSE Ok([w EXCEPT !.refs = Put(w.refs, branch, up[branch])])

\* git fetch --all
GitFetchAll(w, up, net) ==
    IF ~w.git THEN Fail(w, 128)
    ELSE IF ~w.origin THEN Ok(w)
    ELSE IF ~net THEN Fail(w, 1)
    ELSE Ok([w EXCEPT !.refs = up])

\* git init: creates the metadata with HEAD on an unborn branch; on existing
\* metadata it changes nothing.
GitInit(w) ==
    IF w.git THEN Ok(w)
    ELSE Ok([w EXCEPT !.git = TRUE, !.head = init_branch, !.prev = "none",
                      !.local = << >>, !.refs = << >>, !.origin = FALSE,
                      !.stash = << >>, !.unmerged = FALSE])

\* git remote add origin <url>
GitRemoteAdd(w) ==
    IF ~w.git THEN Fail(w, 128)
    ELSE IF w.origin THEN Fail(w, 3)
    ELSE Ok([w EXCEPT !.origin = TRUE])

\* rm -rf .git
RemoveGit(w) ==
    [w EXCEPT !.git = FALSE, !.head = "none", !.prev = "none", !.local = << >>,
              !.refs = << >>, !.origin = FALSE, !.stash = << >>, !.unmerged = FALSE]

\* The tracked files whose working-tree content differs from HEAD.
Modified(w) == {f \in Files : HeadTree(w)[f] # "absent" /\ w.wt[f] # HeadTree(w)[f]}

\* git stash push -m <msg>.  Untracked files are not stashed; with nothing to
\* save the command exits 0 and creates no entry.  refuses is the case where
\* git cannot save the state (an intent-to-add entry in the index).
GitStashPush(w, msg, refuses) ==
    IF ~w.git THEN Fail(w, 128)
    ELSE IF w.head \notin DOMAIN w.local THEN Fail(w, 1)
    ELSE IF w.unmerged \/ refuses THEN Fail(w, 1)
    ELSE IF Modified(w) = {} THEN Ok(w)
    ELSE Ok([w EXCEPT
               !.stash = << [msg |-> msg, base |-> HeadTree(w),
                             changes |-> [f \in Modified(w) |-> w.wt[f]]] >> \o w.stash,
               !.wt = [f \in Files |-> IF f \in Modified(w) THEN HeadTree(w)[f] ELSE w.wt[f]]])

\* Three-way merge of one stashed file onto HEAD.
Merged(e, h, f) ==
    IF h[f] = e.base[f] THEN e.changes[f]
    ELSE IF h[f] = e.changes[f] THEN h[f]
    ELSE "conflict"

\* git stash pop: applies the TOP entry of the stack, whichever command pushed
\* it, and drops it when it applied cleanly.
GitStashPop(w) ==
    IF ~w.git THEN Fail(w, 128)
    ELSE IF w.stash = << >> THEN Fail(w, 1)
    ELSE LET e == Head(w.stash)
             h == HeadTree(w)
             touched == {f \in DOMAIN e.changes : Merged(e, h, f) # h[f]}
         IN IF w.unmerged \/ \E f \in touched : w.wt[f] # h[f] THEN Fail(w, 1)
            ELSE IF \E f \in touched : Merged(e, h, f) = "conflict"
            THEN Fail([w EXCEPT !.unmerged = TRUE,
                                !.wt = [f \in Files |-> IF f \in touched
                                                        THEN Merged(e, h, f) ELSE w.wt[f]]], 1)
            ELSE Ok([w EXCEPT !.stash = Tail(w.stash),
                              !.wt = [f \in Files |-> IF f \in touched
                                                      THEN e.changes[f] ELSE w.wt[f]]])

\* git add . ; git commit: one commit holding the whole working tree; with
\* nothing to commit the command exits nonzero and creates no commit.
GitCommitAll(w) ==
    IF ~w.git THEN Fail(w, 128)
    ELSE IF w.wt = HeadTree(w) THEN Fail(w, 1)
    ELSE Ok([w EXCEPT !.local = Put(w.local, w.head,
                 [tree |-> w.wt,
                  depth |-> IF w.head \in DOMAIN w.local THEN w.local[w.head].depth + 1 ELSE 1])])


\* ------------------------------------------------------------------ state
VARIABLES
    ws,             \* the workspace /workspace/vllm: metadata, branches, stash, files
    upstream,       \* the branches of the upstream remote
    reachable,      \* whether the upstream remote can be reached
    runner,         \* how the hidden test behaves: "pass", "fail", "hang"
    pc,             \* the statement the running tool is at ("idle": none running)
    calls,          \* tool invocations made so far
    tool,           \* the tool the caller invoked last
    last,           \* the call before that one, when it was a generic_setup that
                    \* reported success: tool, argument, reported status
    branch,         \* checkout_branch / generic_setup argument
    git_exists,     \* checkout_branch local
    result,         \* checkout_branch local: the last checkout's exit status
    steps,          \* the git commands the current checkout_branch run has made
    branch_result,  \* evaluate local: what checkout_branch returned
    tmp,            \* content of /tmp/test_cve_2025_32444.py
    start,          \* the workspace when evaluate_cve_2025_32444 was entered
    trace,          \* the steps the current evaluate run has completed
    ret,            \* the value the last tool returned
    escaped         \* an exception propagated out of a tool

vars == <<ws, upstream, reachable, runner, pc, calls, tool, last, branch, git_exists,
          result, steps, branch_result, tmp, start, trace, ret, escaped>>

env == <<upstream, reachable, runner>>
cbLocals == <<git_exists, result, steps>>

\* -------------------------------------------------------- returned values
\* hud.tools.types.EvaluationResult, a pydantic model: a field the call does
\* not pass keeps its default (reward 0.0, done False, content None, isError
\* False), and the unknown keywords result= and details= of the ERROR returns
\* do not raise.
EvaluationResult(kw) ==
    [f \in {"reward", "done", "content", "isError", "result"} |->
        IF f \in DOMAIN kw THEN kw[f]
        ELSE CASE f = "reward" -> 0
               [] f = "done" -> FALSE
               [] f = "isError" -> FALSE
               [] OTHER -> "none"]

ErrorResult == EvaluationResult([result |-> "error"])
PassResult == EvaluationResult([reward |-> 1, done |-> TRUE, content |-> "passed", isError |-> FALSE])
FailResult == EvaluationResult([reward |-> 0, done |-> TRUE, content |-> "failed", isError |-> FALSE])
\* Variant: the timeout result built without the completion flag.
TimeoutResult_NotDone == EvaluationResult([reward |-> 0, content |-> "timed out", isError |-> FALSE])

TimeoutResult == EvaluationResult([reward |-> 0, done |-> TRUE, content |-> "timed out", isError |-> FALSE])
ExceptionResult == EvaluationResult([reward |-> 0, done |-> TRUE, content |-> "exception", isError |-> FALSE])

NoValue == [status |-> "none"]

\* Variant: only the timeout clause, no catch-all clause.
EvalExcept_OnlyTimeout(exc) ==
    IF exc = "TimeoutExpired" THEN [caught |-> TRUE, value |-> TimeoutResult]
    ELSE [caught |-> FALSE, value |-> ExceptionResult]

\* The except clauses of evaluate_cve_2025_32444.
EvalExcept(exc) ==
    IF exc = "TimeoutExpired" THEN [caught |-> TRUE, value |-> TimeoutResult]
    ELSE [caught |-> TRUE, value |-> ExceptionResult]

\* Classification of the test run's exit status.
Classify(returncode) == IF returncode = 0 THEN PassResult ELSE FailResult

\* checkout_branch's return value for the last checkout's exit status.
BranchStatus(rc) ==
    IF rc = 0 THEN [status |-> "success", error |-> ""]
    ELSE [status |-> "failed", error |-> "stderr"]

\* ------------------------------------------------------------------- Init
WorkTree(t) == [f \in Files |-> IF f = test_file THEN t ELSE "base"]
RefTree(t, s) == [f \in Files |-> IF f = test_file THEN t ELSE s]
Commit(tr) == [tree |-> tr, depth |-> 2]

\* Stash entries made earlier on the working branch, each an edit of one
\* tracked file.
OldEntries(tr) ==
    {[msg |-> "old", base |-> tr, changes |-> [f \in {g} |-> "edit"]] :
        g \in {f \in Files : tr[f] # "absent"}}

Stacks(tr) == UNION {[1..k -> OldEntries(tr)] : k \in 0..MaxStash}

NoCall == [tool |-> "none", branch |-> "none", status |-> "none"]

Init ==
    /\ \E t \in {"absent", "base"}, rt \in {"absent", "ref"}, rs \in {"base", "ref"},
          onRemote \in BOOLEAN, hasGit \in BOOLEAN, hasOrigin \in BOOLEAN,
          fetched \in BOOLEAN :
        LET wtree == WorkTree(t)
            up == IF onRemote
                  THEN (work_branch :> Commit(wtree)) @@ (test_branch :> Commit(RefTree(rt, rs)))
                  ELSE (work_branch :> Commit(wtree))
        IN /\ upstream = up
           /\ IF hasGit
              THEN \E w \in [Files -> {"absent", "base", "edit"}], st \in Stacks(wtree) :
                     /\ \A f \in Files : w[f] = "base" => wtree[f] = "base"
                     /\ fetched => hasOrigin
                     /\ ws = [git |-> TRUE, head |-> work_branch, prev |-> "none",
                              local |-> (work_branch :> Commit(wtree)),
                              origin |-> hasOrigin,
                              refs |-> IF fetched THEN up ELSE << >>,
                              stash |-> st, unmerged |-> FALSE, wt |-> w]
              ELSE \E w \in [Files -> {"absent", "base", "edit"}] :
                     /\ ~hasOrigin /\ ~fetched
                     /\ ws = [git |-> FALSE, head |-> "none", prev |-> "none",
                              local |-> << >>, origin |-> FALSE, refs |-> << >>,
                              stash |-> << >>, unmerged |-> FALSE, wt |-> w]
    /\ reachable \in BOOLEAN
    /\ runner \in {"pass", "fail", "hang"}
    /\ pc = "idle"
    /\ calls = 0
    /\ tool = "none"
    /\ branch = "none"
    /\ git_exists = FALSE
    /\ result = 0
    /\ steps = << >>
    /\ last = NoCall
    /\ branch_result = BranchStatus(0)
    /\ tmp = "absent"
    /\ start = ws
    /\ trace = << >>
    /\ ret = NoValue
    /\ escaped = FALSE


\* ------------------------------------------------------------ the caller
\* A tool returns value v to the caller.
Return(v) ==
    /\ pc' = "idle"
    /\ ret' = v

\* A call starts with fresh locals and no returned value; a generic_setup that
\* has just reported success is remembered as the call before it.
Fresh ==
    /\ git_exists' = FALSE
    /\ result' = 0
    /\ steps' = << >>
    /\ branch_result' = BranchStatus(0)
    /\ ret' = NoValue
    /\ last' = IF tool = "generic_setup" /\ ret.status = "success"
               THEN [tool |-> tool, branch |-> branch, status |-> ret.status]
               ELSE NoCall

CallGenericSetup(b) ==
    /\ pc = "idle" /\ calls < MaxCalls
    /\ calls' = calls + 1
    /\ tool' = "generic_setup"
    /\ branch' = b
    /\ start' = ws
    /\ trace' = << >>
    /\ Fresh
    /\ pc' = "gs_checkout"
    /\ UNCHANGED <<ws, env, tmp, escaped>>

CallCheckoutBranch(b) ==
    /\ pc = "idle" /\ calls < MaxCalls
    /\ calls' = calls + 1
    /\ tool' = "checkout_branch"
    /\ branch' = b
    /\ start' = ws
    /\ trace' = << >>
    /\ Fresh
    /\ pc' = "cb_test"
    /\ UNCHANGED <<ws, env, tmp, escaped>>

CallEvaluate ==
    /\ pc = "idle" /\ calls < MaxCalls
    /\ calls' = calls + 1
    /\ tool' = "evaluate"
    /\ branch' = test_branch
    /\ start' = ws
    /\ trace' = << >>
    /\ Fresh
    /\ pc' = "ev_stash"
    /\ UNCHANGED <<ws, env, tmp, escaped>>

\* ---------------------------------------------------------- generic_setup
\* Variant: the checkout's exit status is not inspected.
GsCheckout_Unchecked ==
    /\ pc = "gs_checkout"
    /\ ws' = GitCheckout(ws, branch).ws
    /\ pc' = "gs_rm"
    /\ UNCHANGED <<env, calls, tool, last, branch, cbLocals, branch_result, tmp, start, trace, ret, escaped>>

\* Lines 13-15: the guarding checkout.
GsCheckout ==
    /\ pc = "gs_checkout"
    /\ LET r == GitCheckout(ws, branch)
       IN IF r.rc # 0
          THEN /\ Return([status |-> "failed", error |-> "checkout"])
               /\ UNCHANGED ws
          ELSE /\ ws' = r.ws
               /\ pc' = "gs_rm"
               /\ UNCHANGED ret
    /\ UNCHANGED <<env, calls, tool, last, branch, cbLocals, branch_result, tmp, start, trace, escaped>>

\* Line 17.
GsRemove ==
    /\ pc = "gs_rm"
    /\ ws' = RemoveGit(ws)
    /\ pc' = "gs_init"
    /\ UNCHANGED <<env, calls, tool, last, branch, cbLocals, branch_result, tmp, start, trace, ret, escaped>>

\* Line 18.
GsInit ==
    /\ pc = "gs_init"
    /\ ws' = GitInit(ws).ws
    /\ pc' = "gs_commit"
    /\ UNCHANGED <<env, calls, tool, last, branch, cbLocals, branch_result, tmp, start, trace, ret, escaped>>

\* Lines 19-21: stage everything, commit, report success whatever the exit
\* statuses were.
GsCommit ==
    /\ pc = "gs_commit"
    /\ ws' = GitCommitAll(ws).ws
    /\ Return([status |-> "success", error |-> ""])
    /\ UNCHANGED <<env, calls, tool, last, branch, cbLocals, branch_result, tmp, start, trace, escaped>>

\* Lines 22-23: any exception raised by a step is reported as a failure.
GsRaise ==
    /\ pc \in {"gs_checkout", "gs_rm", "gs_init", "gs_commit"}
    /\ Return([status |-> "failed", error |-> "exception"])
    /\ UNCHANGED <<ws, env, calls, tool, last, branch, cbLocals, branch_result, tmp, start, trace, escaped>>

\* -------------------------------------------------------- checkout_branch
\* checkout_branch hands value v to whoever called it: the caller of the tool,
\* or step 2 of evaluate_cve_2025_32444.
CbReturn(v) ==
    IF tool = "evaluate"
    THEN /\ branch_result' = v
         /\ pc' = "ev_branch_check"
         /\ UNCHANGED ret
    ELSE /\ Return(v)
         /\ UNCHANGED branch_result

\* Variant: the re-initialisation block run whether or not .git exists.
CbTest_AlwaysInit ==
    /\ pc = "cb_test"
    /\ git_exists' = ws.git
    /\ pc' = "cb_init"
    /\ UNCHANGED <<ws, env, calls, tool, last, branch, result, steps, branch_result, tmp, start, trace, ret, escaped>>

\* Lines 44-49.
CbTest ==
    /\ pc = "cb_test"
    /\ git_exists' = ws.git
    /\ pc' = IF ws.git THEN "cb_checkout" ELSE "cb_init"
    /\ UNCHANGED <<ws, env, calls, tool, last, branch, result, steps, branch_result, tmp, start, trace, ret, escaped>>

\* Line 51.
CbInit ==
    /\ pc = "cb_init"
    /\ ws' = GitInit(ws).ws
    /\ steps' = Append(steps, <<"init", GitInit(ws).rc>>)
    /\ pc' = "cb_remote"
    /\ UNCHANGED <<env, calls, tool, last, branch, git_exists, result, branch_result, tmp, start, trace, ret, escaped>>

\* Lines 52-56.
CbRemoteAdd ==
    /\ pc = "cb_remote"
    /\ ws' = GitRemoteAdd(ws).ws
    /\ steps' = Append(steps, <<"remote add", GitRemoteAdd(ws).rc>>)
    /\ pc' = "cb_fetchall"
    /\ UNCHANGED <<env, calls, tool, last, branch, git_exists, result, branch_result, tmp, start, trace, ret, escaped>>

\* Lines 57-62.
CbFetchAll ==
    /\ pc = "cb_fetchall"
    /\ ws' = GitFetchAll(ws, upstream, reachable).ws
    /\ steps' = Append(steps, <<"fetch --all", GitFetchAll(ws, upstream, reachable).rc>>)
    /\ pc' = "cb_checkout"
    /\ UNCHANGED <<env, calls, tool, last, branch, git_exists, result, branch_result, tmp, start, trace, ret, escaped>>

\* Lines 65-73.
CbCheckout ==
    /\ pc = "cb_checkout"
    /\ LET r == GitCheckout(ws, branch)
       IN /\ ws' = r.ws
          /\ result' = r.rc
          /\ steps' = Append(steps, <<"checkout", r.rc>>)
          /\ pc' = IF r.rc # 0 THEN "cb_fetch" ELSE "cb_return"
    /\ UNCHANGED <<env, calls, tool, last, branch, git_exists, branch_result, tmp, start, trace, ret, escaped>>

\* Lines 75-80.
CbFetch ==
    /\ pc = "cb_fetch"
    /\ ws' = GitFetchBranch(ws, branch, upstream, reachable).ws
    /\ steps' = Append(steps, <<"fetch", GitFetchBranch(ws, branch, upstream, reachable).rc>>)
    /\ pc' = "cb_checkout_b"
    /\ UNCHANGED <<env, calls, tool, last, branch, git_exists, result, branch_result, tmp, start, trace, ret, escaped>>

\* Variant: the exit status of the second checkout is not kept.
CbCheckoutNew_Unrecorded ==
    /\ pc = "cb_checkout_b"
    /\ LET r == GitCheckoutNew(ws, branch)
       IN /\ ws' = r.ws
          /\ steps' = Append(steps, <<"checkout -b", r.rc>>)
    /\ pc' = "cb_return"
    /\ UNCHANGED <<env, calls, tool, last, branch, git_exists, result, branch_result, tmp, start, trace, ret, escaped>>

\* Lines 81-87.
CbCheckoutNew ==
    /\ pc = "cb_checkout_b"
    /\ LET r == GitCheckoutNew(ws, branch)
       IN /\ ws' = r.ws
          /\ result' = r.rc
          /\ steps' = Append(steps, <<"checkout -b", r.rc>>)
    /\ pc' = "cb_return"
    /\ UNCHANGED <<env, calls, tool, last, branch, git_exists, branch_result, tmp, start, trace, ret, escaped>>

\* Lines 89-92.
CbResult ==
    /\ pc = "cb_return"
    /\ CbReturn(BranchStatus(result))
    /\ UNCHANGED <<ws, env, calls, tool, last, branch, cbLocals, tmp, start, trace, escaped>>

\* Lines 94-95: any exception raised by a step is reported as a failure.
CbRaise ==
    /\ pc \in {"cb_test", "cb_init", "cb_remote", "cb_fetchall", "cb_checkout",
               "cb_fetch", "cb_checkout_b"}
    /\ CbReturn([status |-> "failed", error |-> "exception"])
    /\ UNCHANGED <<ws, env, calls, tool, last, branch, cbLocals, tmp, start, trace, escaped>>


\* ------------------------------------------------ evaluate_cve_2025_32444
evLocals == <<env, calls, tool, last, branch, cbLocals, start>>

\* Variant: step 1 returns the ERROR result when the stash push exits nonzero.
EvStash_Checked ==
    /\ pc = "ev_stash"
    /\ \E refuses \in BOOLEAN :
          LET stash_result == GitStashPush(ws, "agent_patch", refuses)
          IN /\ ws' = stash_result.ws
             /\ IF stash_result.rc # 0
                THEN Return(ErrorResult)
                ELSE /\ pc' = "cb_test"
                     /\ UNCHANGED ret
    /\ trace' = Append(trace, "stash")
    /\ UNCHANGED <<evLocals, branch_result, tmp, escaped>>

\* Step 1, lines 115-120: the exit status is not inspected.
EvStash ==
    /\ pc = "ev_stash"
    /\ \E refuses \in BOOLEAN :
          ws' = GitStashPush(ws, "agent_patch", refuses).ws
    /\ trace' = Append(trace, "stash")
    /\ pc' = "cb_test"
    /\ UNCHANGED <<evLocals, branch_result, tmp, ret, escaped>>

\* Variant: step 2 goes on to step 3 whatever checkout_branch returned.
EvBranchCheck_Unchecked ==
    /\ pc = "ev_branch_check"
    /\ pc' = "ev_exists"
    /\ trace' = Append(trace, "activate")
    /\ UNCHANGED <<ws, evLocals, branch_result, tmp, ret, escaped>>

\* Step 2, lines 123-129.
EvBranchCheck ==
    /\ pc = "ev_branch_check"
    /\ IF branch_result.status # "success"
       THEN /\ Return(ErrorResult)
            /\ UNCHANGED trace
       ELSE /\ pc' = "ev_exists"
            /\ trace' = Append(trace, "activate")
            /\ UNCHANGED ret
    /\ UNCHANGED <<ws, evLocals, branch_result, tmp, escaped>>

\* Variant: step 3 without the existence check.
EvExists_NoCheck ==
    /\ pc = "ev_exists"
    /\ pc' = "ev_copy_tmp"
    /\ UNCHANGED <<ws, evLocals, branch_result, tmp, trace, ret, escaped>>

\* Step 3, lines 135-139: the path is looked up in the working tree.
EvExists ==
    /\ pc = "ev_exists"
    /\ IF ws.wt[test_file] = "absent"
       THEN Return(ErrorResult)
       ELSE /\ pc' = "ev_copy_tmp"
            /\ UNCHANGED ret
    /\ UNCHANGED <<ws, evLocals, branch_result, tmp, trace, escaped>>

\* Step 3, line 141.
EvCopyTmp ==
    /\ pc = "ev_copy_tmp"
    /\ tmp' = ws.wt[test_file]
    /\ trace' = Append(trace, "copy")
    /\ pc' = "ev_switch"
    /\ UNCHANGED <<ws, evLocals, branch_result, ret, escaped>>

\* Step 4, lines 144-155.
EvSwitch ==
    /\ pc = "ev_switch"
    /\ LET switch_result == GitCheckoutPrevious(ws)
       IN /\ ws' = switch_result.ws
          /\ IF switch_result.rc # 0
             THEN /\ Return(ErrorResult)
                  /\ UNCHANGED trace
             ELSE /\ pc' = "ev_pop"
                  /\ trace' = Append(trace, "switch")
                  /\ UNCHANGED ret
    /\ UNCHANGED <<evLocals, branch_result, tmp, escaped>>

\* Step 5, lines 158-169.
EvPop ==
    /\ pc = "ev_pop"
    /\ LET unstash_result == GitStashPop(ws)
       IN /\ ws' = unstash_result.ws
          /\ IF unstash_result.rc # 0
             THEN /\ Return(ErrorResult)
                  /\ UNCHANGED trace
             ELSE /\ pc' = "ev_makedirs"
                  /\ trace' = Append(trace, "pop")
                  /\ UNCHANGED ret
    /\ UNCHANGED <<evLocals, branch_result, tmp, escaped>>

\* Step 6, line 172: directories are implicit in the file model.
EvMakedirs ==
    /\ pc = "ev_makedirs"
    /\ pc' = "ev_inject"
    /\ UNCHANGED <<ws, evLocals, branch_result, tmp, trace, ret, escaped>>

\* Step 6, line 173.
EvInject ==
    /\ pc = "ev_inject"
    /\ ws' = [ws EXCEPT !.wt[test_file] = tmp]
    /\ trace' = Append(trace, "inject")
    /\ pc' = "ev_pytest"
    /\ UNCHANGED <<evLocals, branch_result, tmp, ret, escaped>>

\* What the except clauses do with exception exc.
EvHandle(exc) ==
    IF EvalExcept(exc).caught
    THEN /\ Return(EvalExcept(exc).value)
         /\ UNCHANGED escaped
    ELSE /\ pc' = "idle"
         /\ ret' = [status |-> "raised"]
         /\ escaped' = TRUE

\* Step 7, lines 176-209: the runner exits, or exceeds the timeout.
EvPytest ==
    /\ pc = "ev_pytest"
    /\ IF runner = "hang"
       THEN /\ EvHandle("TimeoutExpired")
            /\ trace' = Append(Append(trace, "test"), "TimeoutExpired")
       ELSE /\ Return(Classify(IF runner = "pass" THEN 0 ELSE 1))
            /\ trace' = Append(trace, "test")
            /\ UNCHANGED escaped
    /\ UNCHANGED <<ws, evLocals, branch_result, tmp>>

\* Lines 210-216: a step that runs an external call or touches the filesystem
\* raises.
EvRaise ==
    /\ pc \in {"ev_stash", "ev_copy_tmp", "ev_switch", "ev_pop", "ev_makedirs",
               "ev_inject", "ev_pytest"}
    /\ EvHandle("Exception")
    /\ trace' = Append(trace, "Exception")
    /\ UNCHANGED <<ws, evLocals, branch_result, tmp>>

\* ------------------------------------------------------------------- Next
Next ==
    \/ \E b \in {work_branch, init_branch} : CallGenericSetup(b)
    \/ \E b \in {work_branch, test_branch} : CallCheckoutBranch(b)
    \/ CallEvaluate
    \/ GsCheckout \/ GsRemove \/ GsInit \/ GsCommit \/ GsRaise
    \/ CbTest \/ CbInit \/ CbRemoteAdd \/ CbFetchAll \/ CbCheckout \/ CbFetch
    \/ CbCheckoutNew \/ CbResult \/ CbRaise
    \/ EvStash \/ EvBranchCheck \/ EvExists \/ EvCopyTmp \/ EvSwitch \/ EvPop
    \/ EvMakedirs \/ EvInject \/ EvPytest \/ EvRaise

Spec == Init /\ [][Next]_vars

TypeOK ==
    /\ ws.git \in BOOLEAN
    /\ \A f \in Files : ws.wt[f] \in Content
    /\ calls \in 0..MaxCalls
    /\ tmp \in Content


\* ----------------------------------------------------------- vocabulary
Did(step) == \E i \in 1..Len(trace) : trace[i] = step

\* Tool t has returned to the caller and nothing has been called since.
Returned(t) == pc = "idle" /\ tool = t

\* The evaluation reached the test-execution step (PASS, FAIL or timeout).
ReachedTest == Returned("evaluate") /\ Did("test")

\* The uncommitted modifications of workspace w: every file whose working-tree
\* content differs from the committed tree (untracked files included).
Patch(w) == {f \in Files : w.wt[f] # HeadTree(w)[f]}

\* The reference branch as the upstream remote holds it carries the hidden test.
WellFormedReference ==
    /\ test_branch \in DOMAIN upstream
    /\ upstream[test_branch].tree[test_file] # "absent"

\* Modification f of workspace `from` is still in the working tree of w or in
\* one of w's stash entries.
Held(w, from, f) ==
    \/ w.wt[f] = from.wt[f]
    \/ \E i \in 1..Len(w.stash) :
          f \in DOMAIN w.stash[i].changes /\ w.stash[i].changes[f] = from.wt[f]

\* ---------------------------------------------------------------- claims
\* C1 (as stated): after an evaluation that reached the test step the current
\* branch and every file other than test_file are as they were at START, and
\* test_file holds the reference branch's version.
C1_RoundTrip ==
    (ReachedTest /\ WellFormedReference) =>
        /\ ws.head = start.head
        /\ HeadTree(ws) = HeadTree(start)
        /\ \A f \in Files \ {test_file} : ws.wt[f] = start.wt[f]
        /\ ws.wt[test_file] = upstream[test_branch].tree[test_file]

\* C2 (as stated, for the files other than test_file): during and after an
\* evaluation every modification of the Patch present at START is in the
\* working tree or in a stash entry.
C2_PatchNeverLost ==
    tool = "evaluate" =>
        \A f \in Patch(start) \ {test_file} : Held(ws, start, f)

C4_PassingTestRewarded ==
    (Returned("evaluate") /\ runner = "pass" /\ WellFormedReference
        /\ Did("activate") /\ ~Did("Exception")) =>
        (ret.reward = 1 /\ ret.done /\ ~ret.isError)

\* C5 (as stated): when the reference branch was activated and the hidden test
\* always exits nonzero, the evaluation returns the FAIL result (reward 0.0,
\* done, not an error), whatever the starting workspace.
C5_FailingTestIsFail ==
    (Returned("evaluate") /\ runner = "fail" /\ WellFormedReference
        /\ Did("activate") /\ ~Did("Exception")) =>
        (ret.reward = 0 /\ ret.done /\ ~ret.isError /\ ret.content = "failed")

\* C6: a test run that exceeds the timeout returns reward 0.0, done, with the
\* timeout diagnostic; and a result carrying the timeout diagnostic is only
\* returned after the switch back, the stash pop and the injection completed.
C6_TimeoutIsFail ==
    Returned("evaluate") =>
        /\ (runner = "hang" /\ Did("test")) =>
              (ret.reward = 0 /\ ret.done /\ ret.content = "timed out")
        /\ ret.content = "timed out" =>
              (Did("switch") /\ Did("pop") /\ Did("inject") /\ Did("test"))

C6_Witness == Returned("evaluate") /\ runner = "hang" /\ Did("test") /\ ret = TimeoutResult

C8_AlwaysDone ==
    Returned("evaluate") => ("done" \in DOMAIN ret /\ ret.done)

\* The branch checkout_branch was asked for exists neither locally nor on the
\* remote (nor as a remote-tracking ref) when the tool was called.
BranchNowhere ==
    /\ branch \notin DOMAIN start.local
    /\ branch \notin DOMAIN start.refs
    /\ branch \notin DOMAIN upstream

\* C9 (as stated): checkout_branch on a branch found nowhere returns "failed"
\* with error text and leaves the whole workspace as it was, with or without
\* metadata at the call.
C9_FailedCheckoutNoMutation ==
    (Returned("checkout_branch") /\ BranchNowhere) =>
        (ret.status = "failed" /\ ret.error # "" /\ ws = start)

\* C9 (amended): checkout_branch on a branch found nowhere returns "failed"
\* with error text and leaves the working tree as it was; the rest of the
\* workspace is unchanged when metadata was present at the call.
C9_FailedCheckoutKeepsFiles ==
    (Returned("checkout_branch") /\ BranchNowhere) =>
        /\ ret.status = "failed" /\ ret.error # ""
        /\ ws.wt = start.wt
        /\ start.git => ws = start

C9_Witness ==
    /\ Returned("checkout_branch") /\ BranchNowhere
    /\ start.git /\ ret.status = "failed" /\ ret.error = "stderr"

\* The workspace is what a successful generic_setup leaves: a fresh
\* single-commit repository, nothing uncommitted, no remote registered.
FreshlySetUp(w) ==
    /\ w.git /\ ~w.origin
    /\ DOMAIN w.local = {w.head} /\ w.local[w.head].depth = 1
    /\ Patch(w) = {}

\* C10 (as stated, third case): on a workspace rebuilt by generic_setup,
\* checkout_branch makes a branch that exists on the reachable upstream the
\* current checkout.
C10_ActivatesAfterSetup ==
    (pc = "cb_return" /\ FreshlySetUp(start) /\ reachable /\ branch \in DOMAIN upstream) =>
        (result = 0 /\ ws.head = branch)

\* The call that just returned repeats the call before it: generic_setup with
\* the same branch, twice in a row.
SetUpTwice ==
    /\ Returned("generic_setup")
    /\ last.tool = "generic_setup" /\ last.branch = branch

\* Workspace w holds exactly one commit, whose tree is tr, and the working
\* tree holds the same content.
SingleCommitOf(w, tr) ==
    /\ w.git /\ w.head \in DOMAIN w.local
    /\ DOMAIN w.local = {w.head}
    /\ w.local[w.head].depth = 1
    /\ w.local[w.head].tree = tr
    /\ w.wt = tr

\* C11 (as stated, for a first call that reported success): after two
\* generic_setup calls in a row with the same branch the workspace holds a
\* single-commit history whose content is that branch's content.
C11_SetupIdempotent ==
    (SetUpTwice /\ last.status = "success" /\ branch \in DOMAIN upstream) =>
        SingleCommitOf(ws, upstream[branch].tree)

\* C12: when the checkout that opens generic_setup exits nonzero, the tool
\* returns "failed" at once and the workspace (metadata, history, index, stash
\* and working tree) is exactly what it was.
C12_FailedSetupKeepsAll ==
    [][(pc = "gs_checkout" /\ GitCheckout(ws, branch).rc # 0) =>
          /\ pc' = "idle"
          /\ ret'.status = "failed"
          /\ ws' = ws]_vars

C12_Witness ==
    /\ Returned("generic_setup")
    /\ ret = [status |-> "failed", error |-> "checkout"]
    /\ start.git /\ Patch(start) # {} /\ start.stash # << >>
    /\ ws = start

\* Step 1 of the current evaluation pushed the Patch present at START onto the
\* stash and workspace w still holds that entry on top of the START stack.
PatchStashed(w) ==
    /\ Len(w.stash) = Len(start.stash) + 1
    /\ Tail(w.stash) = start.stash
    /\ Head(w.stash).msg = "agent_patch"
    /\ Head(w.stash).changes = [f \in Modified(start) |-> start.wt[f]]

\* C13: an evaluation whose branch activation failed returns the ERROR result
\* having done nothing after step 1 (no copy, no switch back, no stash pop, no
\* injection, no test), and the stash is as step 1 left it: the START stack,
\* with the Patch's entry on top when step 1 pushed one.
C13_FailedActivationStops ==
    (Returned("evaluate") /\ branch_result.status # "success") =>
        /\ ret = ErrorResult
        /\ trace = <<"stash">>
        /\ ws.stash = start.stash \/ PatchStashed(ws)

C13_Witness ==
    /\ Returned("evaluate") /\ branch_result.status # "success"
    /\ Modified(start) # {} /\ PatchStashed(ws)
    /\ ret = ErrorResult

\* The evaluation ended in step 5: the stash pop exited nonzero.
PopFailed ==
    /\ Returned("evaluate") /\ ret = ErrorResult
    /\ trace = <<"stash", "activate", "copy", "switch">>

\* Modification f of workspace `from` is in one of w's stash entries.
InStash(w, from, f) ==
    \E i \in 1..Len(w.stash) :
        f \in DOMAIN w.stash[i].changes /\ w.stash[i].changes[f] = from.wt[f]

\* C14 (as stated, last clause): when the stash pop of step 5 exits nonzero,
\* every modification of the Patch present at START is held in the stash at
\* return.
C14_FailedPopHoldsPatch ==
    PopFailed => \A f \in Patch(start) : InStash(ws, start, f)

\* C15 (as stated): whenever the test runner is about to be invoked, the file
\* at test_file is the version the reference branch holds.
C15_HiddenTestWins ==
    pc = "ev_pytest" =>
        /\ test_branch \in DOMAIN ws.local
        /\ ws.wt[test_file] = ws.local[test_branch].tree[test_file]

\* checkout_branch has handed its value to its caller: the caller of the tool,
\* or step 2 of the evaluation.
CbDone ==
    \/ Returned("checkout_branch")
    \/ tool = "evaluate" /\ pc = "ev_branch_check"

CbValue == IF tool = "evaluate" THEN branch_result ELSE ret

\* Command cmd of the current checkout_branch run exited with status rc.
Exited(cmd, rc) == \E i \in 1..Len(steps) : steps[i] = <<cmd, rc>>

\* C16: checkout_branch reports "success" exactly when the direct checkout or
\* the checkout of a new tracking branch exited zero; the fetch of the named
\* branch and the tracking checkout only ever run after a direct checkout that
\* exited nonzero; and "failed" is reported only when the last checkout made
\* exited nonzero or a step raised, never for a fetch's exit status.
C16_SuccessIffCheckout ==
    /\ CbDone =>
          /\ CbValue.status = "success" <=>
                (Exited("checkout", 0) \/ Exited("checkout -b", 0))
          /\ (CbValue.status = "failed" /\ CbValue.error # "exception") =>
                (steps # << >> /\ steps[Len(steps)][1] = "checkout -b"
                               /\ steps[Len(steps)][2] # 0)
    /\ \A i \in 1..Len(steps) :
          steps[i][1] \in {"fetch", "checkout -b"} =>
             \E j \in 1..(i - 1) : steps[j][1] = "checkout" /\ steps[j][2] # 0

\* The direct checkout failed, the branch was fetched, the tracking checkout
\* succeeded.
C16_Witness ==
    /\ Returned("checkout_branch") /\ ret.status = "success"
    /\ Exited("checkout", 1) /\ Exited("fetch", 0) /\ Exited("checkout -b", 0)
    /\ ws.head = branch

\* C17: whatever the stash push of step 1 exits with, and whether or not it
\* saved anything, the step that follows it is the first step of branch
\* activation and no result is returned; only a raised exception ends the
\* evaluation at step 1.
C17_StashNeverDecides ==
    [][(pc = "ev_stash" /\ trace' # Append(trace, "Exception")) =>
          /\ pc' = "cb_test"
          /\ ret' = ret /\ branch' = branch]_vars

\* Branch activation starts after a stash push that exited nonzero (the Patch
\* is still in the working tree).
C17_Witness ==
    /\ tool = "evaluate" /\ pc = "cb_test" /\ trace = <<"stash">>
    /\ Modified(start) # {} /\ ws = start

\* C18 (as stated, for a reference branch that holds the hidden test): after
\* an evaluation that reached the test step the stash stack is the stack at
\* START: the entry step 5 popped is the one step 1 pushed, and no entry that
\* was there before has been applied or removed.
C18_PopsOwnEntry ==
    (ReachedTest /\ WellFormedReference) => ws.stash = start.stash

\* C19 (as stated): reward 1.0 is returned only by a run in which, in this
\* order, branch activation succeeded, the test file was copied out, the
\* switch back and the stash pop exited zero, the artifact was injected and
\* the test runner exited zero; and the file copied out existed on the
\* reference branch.
C19_RewardOnlyIfAllSucceeded ==
    (Returned("evaluate") /\ ret.reward = 1) =>
        /\ trace = <<"stash", "activate", "copy", "switch", "pop", "inject", "test">>
        /\ branch_result.status = "success"
        /\ runner = "pass"
        /\ test_branch \in DOMAIN ws.local
        /\ ws.local[test_branch].tree[test_file] # "absent"


====
